---- MODULE Spec2Model ----
(***************************************************************************)
(* Model of the WPPConnect session bring-up code:                          *)
(*   - HostLayer (login sequencer and auto-close timer),                   *)
(*     src/src/tests/04.sessionmanager.test.ts lines 54-367                *)
(*   - the session registry, src/src/controllers/sessionmanager.ts         *)
(***************************************************************************)
EXTENDS Integers, Sequences, FiniteSets, TLC

VARIABLES
    host,        \* the HostLayer object: options, fields, its page and its intervals
    pc,          \* position of the waitForLogin call (its await points)
    authenticated, \* local `authenticated` of waitForLogin
    urlCode,     \* local `urlCode` of waitForQrCodeScan
    attempt,     \* local `attempt` of waitForQrCodeScan
    scraped,     \* history: the urlCodes getQrCode returned to the scan loop (the recorded ones)
    qrCalls,     \* history: the catchQR invocations, <<urlCode, attempt>>
    reason,      \* what waitForLogin raised (NULL while it has not raised)
    apiCalls,    \* history: the direct startAutoClose/cancelAutoClose calls made
    scansLeft,   \* number of QR codes the scan loop may still scrape (bound of the run)
    tokenDir,      \* the token directory as readdir finds it
    sessionArray,  \* the registry: session identifier -> handle
    mergedOptions, \* the configuration object initAllSessions builds and passes on
    regPc,         \* position of the initAllSessions call
    regReason,     \* what initAllSessions raised
    allSessionsNames, \* local `allSessionsNames` of initAllSessions
    tasks,         \* the promises of the map callbacks of initAllSessions
    singles,       \* the createSession calls
    namesResult,   \* what the getSessionNames calls returned
    errorLog,      \* what was given to logger.error
    createCalls    \* the session of the configuration at each call of create

hostVars == <<host, pc, authenticated, urlCode, attempt, scraped, qrCalls, reason, apiCalls, scansLeft>>

regVars == <<tokenDir, sessionArray, mergedOptions, regPc, regReason, allSessionsNames,
             tasks, singles, namesResult, errorLog, createCalls>>

vars == <<hostVars, regVars>>

----------------------------------------------------------------------------
(* Bounds of the model *)

\* largest whole-second autoClose duration tried
MaxAutoCloseSec == 2

\* largest number of QR codes the scan loop scrapes in one run
MaxScrapes == 5

\* largest number of direct calls of the timer's start/cancel methods
MaxApiCalls == 1

\* largest number of QR codes scraped in a run that has such direct calls
MaxApiScrapes == 1

\* largest number of recorded QR codes in the runs checked for the two loops
MaxLoopScrapes == 1

\* largest number of files in the token directory
MaxFiles == 2

\* largest number of createSession calls
MaxCreateSession == 1

\* largest number of getSessionNames calls
MaxNamesCalls == 1

----------------------------------------------------------------------------
(* Values *)

\* JavaScript's null / undefined
NULL == "null"

\* the booleans, as the values a probe answers
T == "true"

F == "false"

\* a rejected promise, as the outcome of an awaited probe
REJECT == "reject"

\* autoCloseInterval = null: no interval handle (timer handles are 1, 2, ...)
NoInterval == 0

\* the urlCodes a scrape can give
Codes == {"A", "B"}

\* options.autoClose, in milliseconds
AutoCloseValues == {-1000, 0, 400, 1500} \cup {n * 1000 : n \in 1..MaxAutoCloseSec}

\* Math.round(ms / 1000) for ms > 0
Seconds(ms) == (ms + 500) \div 1000

Last(s) == s[Len(s)]

----------------------------------------------------------------------------
(* The page *)

\* page.isClosed(): true once the page's close event has been emitted
isClosed(h) == h.page = "closed"

\* page.close(): asks the browser to close the page; the close event comes later
pageClose(h) == [h EXCEPT !.page = IF @ = "open" THEN "closing" ELSE @]

----------------------------------------------------------------------------
(* The auto-close timer *)

\* this.statusFind && this.statusFind(ev, this.session)
emit(h, ev) == IF h.statusFind THEN [h EXCEPT !.statusLog = Append(@, ev)] ELSE h

\* clearInterval(id): the interval id ticks no more
clearInterval(timers, id) == [i \in DOMAIN timers \ {id} |-> timers[i]]

cancelAutoClose(h) ==
    [h EXCEPT !.timers = clearInterval(@, h.autoCloseInterval),
              !.autoCloseInterval = NoInterval,
              !.lastCancelled = IF h.autoCloseInterval \in DOMAIN h.timers
                                THEN <<h.timers[h.autoCloseInterval].remain>>
                                ELSE @]

CanClose_whileRunning(h) == h.autoClose > 0 /\ h.autoCloseInterval # NoInterval /\ ~isClosed(h)

\* the guard of the close action in tryAutoClose
CanClose(h) == h.autoClose > 0 /\ h.autoCloseInterval = NoInterval /\ ~isClosed(h)

\* `who` is the caller, recorded in closeLog
tryAutoClose(h, who) ==
    LET h1 == IF h.autoCloseInterval # NoInterval THEN cancelAutoClose(h) ELSE h
    IN  IF CanClose(h1)
        THEN LET h2 == emit(h1, "autocloseCalled")
             IN  pageClose([h2 EXCEPT !.closeLog = Append(@, who)])
        ELSE h1

CanStart_noRunningGuard(h) == h.autoClose > 0

CanStart_noDisableGuard(h) == h.autoCloseInterval = NoInterval

\* the guard of startAutoClose
CanStart(h) == h.autoClose > 0 /\ h.autoCloseInterval = NoInterval

startAutoClose(h) ==
    IF CanStart(h)
    THEN LET id == h.nextTimer
         IN  [h EXCEPT !.timers = [i \in DOMAIN @ \cup {id} |->
                                      IF i = id
                                      THEN [remain |-> Seconds(h.autoClose), ticks |-> 0]
                                      ELSE @[i]],
                       !.autoCloseInterval = id,
                       !.nextTimer = @ + 1]
    ELSE h

Fires_strict(remain) == remain < 0

\* the countdown has reached zero
Fires(remain) == remain <= 0

intervalCallback_noClosedCheck(h, id) ==
    LET h1 == [h EXCEPT !.timers[id].remain = @ - 1,
                        !.timers[id].ticks = @ + 1]
    IN  IF Fires(h1.timers[id].remain)
        THEN tryAutoClose(h1, [by |-> "timer", id |-> id, tick |-> h1.timers[id].ticks])
        ELSE h1

\* the callback of the interval id
intervalCallback(h, id) ==
    IF isClosed(h)
    THEN cancelAutoClose(h)
    ELSE LET h1 == [h EXCEPT !.timers[id].remain = @ - 1,
                             !.timers[id].ticks = @ + 1]
         IN  IF Fires(h1.timers[id].remain)
             THEN tryAutoClose(h1, [by |-> "timer", id |-> id, tick |-> h1.timers[id].ticks])
             ELSE h1

----------------------------------------------------------------------------
(* The page probes and the QR scrape *)

\* isAuthenticated(page).catch(() => null)
AuthAnswers == {T, F, NULL}

\* needsToScan(page).catch(() => null)
NeedsScanAnswers == {T, F, NULL}

\* isInsideChat(page), awaited without a catch
InChatAnswers == {T, F, NULL, REJECT}

\* scrapeImg(page) / retrieveQR(page), each with .catch(() => undefined):
\* a urlCode, or NULL for no result or a result without urlCode
ScrapeAnswers == Codes \cup {NULL}

\* the fast scrape, and the slower retrieval when it gave no code
getQrCode(fast, slow) == IF fast = NULL THEN slow ELSE fast

IsNewCode_always(last, code) == TRUE

\* urlCode !== result.urlCode
IsNewCode(last, code) == last # code

----------------------------------------------------------------------------
(* waitForLogin *)

HostInit(ac, lq) ==
    [autoClose |-> ac,
     logQR |-> lq,
     autoCloseInterval |-> NoInterval,
     statusFind |-> FALSE,
     catchQR |-> FALSE,
     page |-> "open",
     timers |-> << >>,
     nextTimer |-> 1,
     statusLog |-> << >>,
     closeLog |-> << >>,
     lastCancelled |-> << >>]

HostStart(budget) ==
    /\ \E ac \in AutoCloseValues, lq \in BOOLEAN : host = HostInit(ac, lq)
    /\ scansLeft = budget
    /\ pc = "idle"
    /\ authenticated = NULL
    /\ urlCode = NULL
    /\ attempt = 0
    /\ scraped = << >>
    /\ qrCalls = << >>
    /\ reason = NULL
    /\ apiCalls = << >>


\* who, in closeLog, for the close attempts waitForLogin makes itself
ByLogin == [by |-> "login", id |-> NoInterval, tick |-> 0]

restartAutoClose_noCancel(h) == startAutoClose(h)

restartAutoClose_cancelOnly(h) == cancelAutoClose(h)

\* "Reinicia o contador do autoclose"
restartAutoClose(h) == startAutoClose(cancelAutoClose(h))

connected_noCancel(h) == emit(h, "inChat")

\* the success path once waitForInChat has returned a truthy value
connected(h) == emit(cancelAutoClose(h), "inChat")

\* throw r
Raise(r) == pc' = "raised" /\ reason' = r

\* the statements after the first if / else if of waitForLogin, up to the
\* next await or throw, for the value auth of `authenticated`
AfterAuth_nullAsLogged(h, auth) ==
    /\ authenticated' = auth
    /\ IF auth # F
       THEN /\ host' = restartAutoClose(h)
            /\ pc' = "sleepBeforeInChat"
            /\ UNCHANGED reason
       ELSE /\ host' = tryAutoClose(h, ByLogin)
            /\ Raise("Not logged")

AfterAuth(h, auth) ==
    /\ authenticated' = auth
    /\ IF auth = T
       THEN /\ host' = restartAutoClose(h)
            /\ pc' = "sleepBeforeInChat"
            /\ UNCHANGED reason
       ELSE IF auth = F
       THEN /\ host' = tryAutoClose(h, ByLogin)
            /\ Raise("Not logged")
       ELSE /\ host' = tryAutoClose(h, ByLogin)
            /\ Raise("Unknow error")

WaitForLoginCall(sf, cq) ==
    /\ pc = "idle"
    /\ host' = [host EXCEPT !.statusFind = sf, !.catchQR = cq]
    /\ pc' = "waitForPageLoad"
    /\ UNCHANGED <<regVars, authenticated, urlCode, attempt, scraped, qrCalls, reason, apiCalls, scansLeft>>

WaitForPageLoad ==
    /\ pc = "waitForPageLoad"
    /\ pc' = "isAuthenticated"
    /\ UNCHANGED <<regVars, host, authenticated, urlCode, attempt, scraped, qrCalls, reason, apiCalls, scansLeft>>

\* the first authentication probe, then startAutoClose and the branch taken
IsAuthenticated(ans) ==
    /\ pc = "isAuthenticated"
    /\ LET h1 == startAutoClose(host)
       IN  IF ans = F
           THEN /\ host' = emit(h1, "notLogged")
                /\ authenticated' = F
                /\ urlCode' = NULL
                /\ attempt' = 0
                /\ pc' = "needsToScan"
                /\ UNCHANGED reason
           ELSE /\ AfterAuth(IF ans = T THEN emit(h1, "isLogged") ELSE h1, ans)
                /\ UNCHANGED <<urlCode, attempt>>
    /\ UNCHANGED <<regVars, scraped, qrCalls, apiCalls, scansLeft>>

\* the head of the scan loop
NeedsToScan(ans) ==
    /\ pc = "needsToScan"
    /\ pc' = IF ans = T THEN "getQrCode" ELSE "sleepPostScan"
    /\ UNCHANGED <<regVars, host, authenticated, urlCode, attempt, scraped, qrCalls, reason, apiCalls, scansLeft>>

\* one getQrCode of the scan loop. The first scansLeft codes are any codes and
\* are recorded in scraped; after them the page keeps showing the code it shows
\* (the loop goes on for as long as needsToScan says so), which is not recorded.
GetQrCode(fast, slow) ==
    /\ pc = "getQrCode"
    /\ LET code == getQrCode(fast, slow)
       IN  IF code = NULL
           THEN /\ pc' = "sleepPostScan"
                /\ UNCHANGED <<urlCode, attempt, scraped, scansLeft>>
           ELSE /\ IF scansLeft > 0
                   THEN /\ scraped' = Append(scraped, code)
                        /\ scansLeft' = scansLeft - 1
                   ELSE /\ code = urlCode
                        /\ UNCHANGED <<scraped, scansLeft>>
                /\ IF IsNewCode(urlCode, code)
                   THEN /\ urlCode' = code
                        /\ attempt' = attempt + 1
                        /\ pc' = IF host.logQR \/ host.catchQR THEN "asciiQr" ELSE "sleepScan"
                   ELSE /\ pc' = "sleepScan"
                        /\ UNCHANGED <<urlCode, attempt>>
    /\ UNCHANGED <<regVars, host, authenticated, qrCalls, reason, apiCalls>>

\* the rendering is done: log, then call catchQR when there is one
AsciiQr ==
    /\ pc = "asciiQr"
    /\ qrCalls' = IF host.catchQR THEN Append(qrCalls, <<urlCode, attempt>>) ELSE qrCalls
    /\ pc' = "sleepScan"
    /\ UNCHANGED <<regVars, host, authenticated, urlCode, attempt, scraped, reason, apiCalls, scansLeft>>

SleepScan ==
    /\ pc = "sleepScan"
    /\ pc' = "needsToScan"
    /\ UNCHANGED <<regVars, host, authenticated, urlCode, attempt, scraped, qrCalls, reason, apiCalls, scansLeft>>

SleepPostScan ==
    /\ pc = "sleepPostScan"
    /\ pc' = "recheckAuthenticated"
    /\ UNCHANGED <<regVars, host, authenticated, urlCode, attempt, scraped, qrCalls, reason, apiCalls, scansLeft>>

PostScanThrown_none(auth) == NULL

\* what the branches of the post-scan probe throw themselves (NULL: nothing)
PostScanThrown(auth) == IF auth = F THEN "Failed to read the QRCode" ELSE NULL

\* the authentication probe made after the scan loop
RecheckAuthenticated(ans) ==
    /\ pc = "recheckAuthenticated"
    /\ IF ans = NULL
       THEN AfterAuth(emit(host, "qrReadError"), ans)
       ELSE IF ans = T
       THEN AfterAuth(emit(host, "qrReadSuccess"), ans)
       ELSE LET h1 == tryAutoClose(emit(host, "qrReadFail"), ByLogin)
            IN  IF PostScanThrown(ans) # NULL
                THEN /\ host' = h1
                     /\ authenticated' = ans
                     /\ Raise(PostScanThrown(ans))
                ELSE AfterAuth(h1, ans)
    /\ UNCHANGED <<regVars, urlCode, attempt, scraped, qrCalls, apiCalls, scansLeft>>

SleepBeforeInChat ==
    /\ pc = "sleepBeforeInChat"
    /\ pc' = "isInsideChat"
    /\ UNCHANGED <<regVars, host, authenticated, urlCode, attempt, scraped, qrCalls, reason, apiCalls, scansLeft>>

waitForInChatLoops_never(inChat) == FALSE

\* while (inChat === false)
waitForInChatLoops(inChat) == inChat = F

\* !v, for the values a probe answers
Falsy(v) == v \in {F, NULL}

\* one probe of waitForInChat and, when the loop ends, the rest of waitForLogin
IsInsideChat(ans) ==
    /\ pc = "isInsideChat"
    /\ IF ans = REJECT
       THEN /\ Raise("isInsideChat rejected")
            /\ UNCHANGED host
       ELSE IF waitForInChatLoops(ans)
       THEN /\ pc' = "sleepInChat"
            /\ UNCHANGED <<host, reason>>
       ELSE IF Falsy(ans)
       THEN /\ host' = tryAutoClose(emit(host, "phoneNotConnected"), ByLogin)
            /\ Raise("Phone not connected")
       ELSE /\ host' = connected(host)
            /\ pc' = "returned"
            /\ UNCHANGED reason
    /\ UNCHANGED <<regVars, authenticated, urlCode, attempt, scraped, qrCalls, apiCalls, scansLeft>>

SleepInChat ==
    /\ pc = "sleepInChat"
    /\ pc' = "isInsideChat"
    /\ UNCHANGED <<regVars, host, authenticated, urlCode, attempt, scraped, qrCalls, reason, apiCalls, scansLeft>>

\* one tick of a live interval
TimerTick(id) ==
    /\ id \in DOMAIN host.timers
    /\ host' = intervalCallback(host, id)
    /\ UNCHANGED <<regVars, pc, authenticated, urlCode, attempt, scraped, qrCalls, reason, apiCalls, scansLeft>>

\* the page's close event (a close the code asked for, or any other closure)
PageClosed ==
    /\ host.page # "closed"
    /\ host' = cancelAutoClose([host EXCEPT !.page = "closed"])
    /\ UNCHANGED <<regVars, pc, authenticated, urlCode, attempt, scraped, qrCalls, reason, apiCalls, scansLeft>>

\* a direct call of the protected method startAutoClose
ApiStart ==
    /\ Len(apiCalls) < MaxApiCalls
    /\ host' = startAutoClose(host)
    /\ apiCalls' = Append(apiCalls, "start")
    /\ UNCHANGED <<regVars, pc, authenticated, urlCode, attempt, scraped, qrCalls, reason, scansLeft>>

\* a direct call of the protected method cancelAutoClose
ApiCancel ==
    /\ Len(apiCalls) < MaxApiCalls
    /\ host' = cancelAutoClose(host)
    /\ apiCalls' = Append(apiCalls, "cancel")
    /\ UNCHANGED <<regVars, pc, authenticated, urlCode, attempt, scraped, qrCalls, reason, scansLeft>>

\* the steps of waitForLogin but the probes of its two loops
StraightSteps ==
    \/ \E sf \in BOOLEAN, cq \in BOOLEAN : WaitForLoginCall(sf, cq)
    \/ WaitForPageLoad
    \/ \E ans \in AuthAnswers : IsAuthenticated(ans)
    \/ \E fast \in ScrapeAnswers, slow \in ScrapeAnswers : GetQrCode(fast, slow)
    \/ AsciiQr
    \/ SleepScan
    \/ SleepPostScan
    \/ \E ans \in AuthAnswers : RecheckAuthenticated(ans)
    \/ SleepBeforeInChat
    \/ SleepInChat

\* a tick of a live interval
Tick == \E id \in DOMAIN host.timers : TimerTick(id)

Next ==
    \/ StraightSteps
    \/ \E ans \in NeedsScanAnswers : NeedsToScan(ans)
    \/ \E ans \in InChatAnswers : IsInsideChat(ans)
    \/ Tick
    \/ PageClosed

\* the probes of the two loops when they fail soft on a closed page: needsToScan
\* does not report needs-scan and isInsideChat does not answer false
NeedsToScanSoft == \E ans \in NeedsScanAnswers : (isClosed(host) => ans # T) /\ NeedsToScan(ans)

IsInsideChatSoft == \E ans \in InChatAnswers : (isClosed(host) => ans # F) /\ IsInsideChat(ans)

\* the steps of waitForLogin with such probes
LoginSoft == StraightSteps \/ NeedsToScanSoft \/ IsInsideChatSoft

\* the page closes once page.close() has asked for it
CloseCompletes == host.page = "closing" /\ PageClosed

NextSoft == LoginSoft \/ Tick \/ PageClosed

\* isInsideChat keeps its boolean contract
IsInsideChatBool == \E ans \in {T, F} : IsInsideChat(ans)

NextBool ==
    \/ StraightSteps
    \/ \E ans \in NeedsScanAnswers : NeedsToScan(ans)
    \/ IsInsideChatBool
    \/ Tick
    \/ PageClosed

----------------------------------------------------------------------------
(* The session registry, controllers/sessionmanager.ts *)

\* strings are sequences of characters
Suffix == <<".", "d", "a", "t", "a", ".", "j", "s", "o", "n">>

\* session identifiers
Idents == {<<"a">>, <<"b">>, <<"a">> \o Suffix \o <<"x">>}

\* the file names a token directory may hold
FileNames == {id \o Suffix : id \in Idents} \cup {<<"r">>}

\* the sequences without repetition of at most n elements of S
RECURSIVE Listings(_, _)
Listings(S, n) ==
    IF n = 0
    THEN {<< >>}
    ELSE LET shorter == Listings(S, n - 1)
         IN  shorter \cup {Append(l, x) : l \in shorter, x \in S}

NoRepeat(l) == \A i, j \in 1..Len(l) : l[i] = l[j] => i = j

\* pat occurs in s at position i
MatchAt(s, pat, i) ==
    /\ i + Len(pat) - 1 <= Len(s)
    /\ \A k \in 1..Len(pat) : s[i + k - 1] = pat[k]

\* String.prototype.replace(pat, rep) with a string pattern: the first occurrence only
replace(s, pat, rep) ==
    LET hits == {i \in 1..Len(s) : MatchAt(s, pat, i)}
    IN  IF hits = {}
        THEN s
        ELSE LET i == CHOOSE x \in hits : \A y \in hits : x <= y
             IN  SubSeq(s, 1, i - 1) \o rep \o SubSeq(s, i + Len(pat), Len(s))

\* sessions.map((m) => m.replace('.data.json', ''))
StripAll(files) == [i \in 1..Len(files) |-> replace(files[i], Suffix, << >>)]

\* the value getSessionNames resolves to and what it logs, for a directory dir;
\* defined = FALSE is JavaScript's undefined
getSessionNames(dir) ==
    IF dir.ok
    THEN [defined |-> TRUE, names |-> StripAll(dir.files), logged |-> << >>]
    ELSE [defined |-> FALSE, names |-> << >>, logged |-> <<"Error getAllTokens() -> ">>]

\* options.session when the caller gives none
DefaultSession == <<"s">>

\* the handle that create(config) resolves to, for the session it read from config
\* when it was called and the serial number of the call
Handle(session, serial) == [session |-> session, serial |-> serial]

Store_alone(arr, key, handle) == [k \in {key} |-> handle]

\* sessionArray[key] = handle
Store(arr, key, handle) ==
    [k \in DOMAIN arr \cup {key} |-> IF k = key THEN handle ELSE arr[k]]

RegIdle ==
    /\ sessionArray = << >>
    /\ mergedOptions = [session |-> DefaultSession]
    /\ regPc = "idle"
    /\ regReason = NULL
    /\ allSessionsNames = [defined |-> FALSE, names |-> << >>]
    /\ tasks = << >>
    /\ singles = << >>
    /\ namesResult = << >>
    /\ errorLog = << >>
    /\ createCalls = << >>

\* a call of getSessionNames, to its return
GetSessionNames ==
    /\ Len(namesResult) < MaxNamesCalls
    /\ LET r == getSessionNames(tokenDir)
       IN  /\ namesResult' = Append(namesResult, [defined |-> r.defined, names |-> r.names])
           /\ errorLog' = errorLog \o r.logged
    /\ UNCHANGED <<hostVars, tokenDir, sessionArray, mergedOptions, regPc, regReason,
                   allSessionsNames, tasks, singles, createCalls>>

\* initAllSessions is called: it awaits getSessionNames
InitAllSessions ==
    /\ regPc = "idle"
    /\ regPc' = "getSessionNames"
    /\ UNCHANGED <<hostVars, tokenDir, sessionArray, mergedOptions, regReason,
                   allSessionsNames, tasks, singles, namesResult, errorLog, createCalls>>

\* getSessionNames has resolved: the map over the names runs every callback up
\* to its await of create, in order, on the one object mergedOptions
InitAllMap ==
    /\ regPc = "getSessionNames"
    /\ LET r == getSessionNames(tokenDir)
           n == Len(r.names)
       IN  /\ errorLog' = errorLog \o r.logged
           /\ allSessionsNames' = [defined |-> r.defined, names |-> r.names]
           /\ IF ~r.defined
              THEN /\ regPc' = "raised"
                   /\ regReason' = "TypeError"
                   /\ UNCHANGED <<mergedOptions, tasks, createCalls>>
              ELSE /\ mergedOptions' = IF n = 0 THEN mergedOptions
                                       ELSE [mergedOptions EXCEPT !.session = r.names[n]]
                   /\ tasks' = [i \in 1..n |->
                                  [session |-> r.names[i],
                                   serial |-> Len(createCalls) + i,
                                   read |-> r.names[i],
                                   state |-> "pending"]]
                   /\ createCalls' = createCalls \o r.names
                   /\ regPc' = "awaitAll"
                   /\ UNCHANGED regReason
    /\ UNCHANGED <<hostVars, tokenDir, sessionArray, singles, namesResult>>

\* the create call of the i-th callback resolves: the callback stores the handle
CreateResolves(i) ==
    /\ i \in 1..Len(tasks)
    /\ tasks[i].state = "pending"
    /\ tasks' = [tasks EXCEPT ![i].state = "fulfilled"]
    /\ sessionArray' = Store(sessionArray, tasks[i].session,
                             Handle(tasks[i].read, tasks[i].serial))
    /\ UNCHANGED <<hostVars, tokenDir, mergedOptions, regPc, regReason, allSessionsNames,
                   singles, namesResult, errorLog, createCalls>>

\* the create call of the i-th callback rejects: so does the callback's promise
CreateRejects(i) ==
    /\ i \in 1..Len(tasks)
    /\ tasks[i].state = "pending"
    /\ tasks' = [tasks EXCEPT ![i].state = "rejected"]
    /\ UNCHANGED <<hostVars, tokenDir, sessionArray, mergedOptions, regPc, regReason,
                   allSessionsNames, singles, namesResult, errorLog, createCalls>>

\* Promise.all(promises) is fulfilled once every promise is
AllFulfilled(ts) == \A i \in 1..Len(ts) : ts[i].state = "fulfilled"

\* Promise.all(promises) is rejected as soon as one promise is
SomeRejected(ts) == \E i \in 1..Len(ts) : ts[i].state = "rejected"

InitAllReturn ==
    /\ regPc = "awaitAll"
    /\ AllFulfilled(tasks)
    /\ regPc' = "returned"
    /\ UNCHANGED <<hostVars, tokenDir, sessionArray, mergedOptions, regReason,
                   allSessionsNames, tasks, singles, namesResult, errorLog, createCalls>>

InitAllRaise ==
    /\ regPc = "awaitAll"
    /\ SomeRejected(tasks)
    /\ regPc' = "raised"
    /\ regReason' = "create rejected"
    /\ UNCHANGED <<hostVars, tokenDir, sessionArray, mergedOptions,
                   allSessionsNames, tasks, singles, namesResult, errorLog, createCalls>>

\* createSession(createOption) is called: the key is read, create is called
CreateSession(session) ==
    /\ Len(singles) < MaxCreateSession
    /\ singles' = Append(singles, [session |-> session,
                                   serial |-> Len(createCalls) + 1,
                                   state |-> "pending",
                                   result |-> << >>])
    /\ createCalls' = Append(createCalls, session)
    /\ UNCHANGED <<hostVars, tokenDir, sessionArray, mergedOptions, regPc, regReason,
                   allSessionsNames, tasks, namesResult, errorLog>>

\* its create resolves: the handle is stored and returned
CreateSessionResolves(j) ==
    /\ j \in 1..Len(singles)
    /\ singles[j].state = "pending"
    /\ LET handle == Handle(singles[j].session, singles[j].serial)
       IN  /\ sessionArray' = Store(sessionArray, singles[j].session, handle)
           /\ singles' = [singles EXCEPT ![j].state = "returned", ![j].result = <<handle>>]
    /\ UNCHANGED <<hostVars, tokenDir, mergedOptions, regPc, regReason, allSessionsNames,
                   tasks, namesResult, errorLog, createCalls>>

\* its create rejects: createSession raises
CreateSessionRejects(j) ==
    /\ j \in 1..Len(singles)
    /\ singles[j].state = "pending"
    /\ singles' = [singles EXCEPT ![j].state = "raised"]
    /\ UNCHANGED <<hostVars, tokenDir, sessionArray, mergedOptions, regPc, regReason,
                   allSessionsNames, tasks, namesResult, errorLog, createCalls>>

NextReg ==
    \/ GetSessionNames
    \/ InitAllSessions
    \/ InitAllMap
    \/ \E i \in 1..Len(tasks) : CreateResolves(i)
    \/ \E i \in 1..Len(tasks) : CreateRejects(i)
    \/ InitAllReturn
    \/ InitAllRaise
    \/ \E session \in Idents : CreateSession(session)
    \/ \E j \in 1..Len(singles) : CreateSessionResolves(j)
    \/ \E j \in 1..Len(singles) : CreateSessionRejects(j)

----------------------------------------------------------------------------
(* Specifications *)

\* no token directory is read by the host layer
NoDir == [ok |-> FALSE, files |-> << >>]

\* the token directories: unreadable, or a listing of distinct file names
TokenDirs ==
    {NoDir} \cup {[ok |-> TRUE, files |-> l] : l \in {x \in Listings(FileNames, MaxFiles) : NoRepeat(x)}}

\* one waitForLogin run on a fresh HostLayer, with its timer ticks and page events
Init == HostStart(MaxScrapes) /\ RegIdle /\ tokenDir = NoDir

Spec == Init /\ [][Next]_vars

\* the same, with direct calls of the timer's methods
InitApi == HostStart(MaxApiScrapes) /\ RegIdle /\ tokenDir = NoDir

NextApi == Next \/ ApiStart \/ ApiCancel

SpecApi == InitApi /\ [][NextApi]_vars

\* runs checked for the properties of the two loops
InitLoop == HostStart(MaxLoopScrapes) /\ RegIdle /\ tokenDir = NoDir

\* the interval ticks for as long as it is live
SpecTick == InitLoop /\ [][Next]_vars /\ WF_vars(Tick)

\* awaited probes and sleeps resolve, the interval ticks, a page asked to close
\* closes, and the probes fail soft on a closed page
SpecSoft ==
    InitLoop /\ [][NextSoft]_vars /\ WF_vars(LoginSoft) /\ WF_vars(Tick) /\ WF_vars(CloseCompletes)

\* isInsideChat answers true or false only
SpecBool == InitLoop /\ [][NextBool]_vars

\* the registry's operations on a token directory
InitReg ==
    /\ host = HostInit(0, FALSE)
    /\ scansLeft = 0
    /\ pc = "idle"
    /\ authenticated = NULL
    /\ urlCode = NULL
    /\ attempt = 0
    /\ scraped = << >>
    /\ qrCalls = << >>
    /\ reason = NULL
    /\ apiCalls = << >>
    /\ RegIdle
    /\ tokenDir \in TokenDirs

SpecReg == InitReg /\ [][NextReg]_vars

----------------------------------------------------------------------------
(* Properties of waitForLogin and of the auto-close timer *)

\* no interval is live and the handle field is null
TimerOff == host.timers = << >> /\ host.autoCloseInterval = NoInterval

\* C1: when waitForLogin has returned true, the timer is off (at the return and
\* in every later state), and, for a caller that gave a status observer, inChat
\* has been emitted and is the last status event.
C1_ConnectedInChatLastTimerOff ==
    pc = "returned" =>
        /\ TimerOff
        /\ host.statusFind => /\ Len(host.statusLog) > 0
                              /\ Last(host.statusLog) = "inChat"

\* a run that returned true after a countdown had been running and decrementing
C1_Witness ==
    /\ pc = "returned"
    /\ host.statusFind
    /\ host.autoClose = 2000
    /\ host.lastCancelled = <<1>>
    /\ Last(host.statusLog) = "inChat"
    /\ TimerOff

\* C2: whenever waitForLogin has raised, whatever the failure comes from, the
\* timer has been cancelled: no countdown is running.
C2_RaisedImpliesTimerOff == pc = "raised" => TimerOff

\* the catchQR invocations the scrape sequence s must give: one for the first
\* code and one for each code that differs from the one before it, numbered 1, 2, ...
RECURSIVE ExpectedCalls(_)
ExpectedCalls(s) ==
    IF s = << >>
    THEN << >>
    ELSE LET n == Len(s)
             before == ExpectedCalls(SubSeq(s, 1, n - 1))
         IN  IF n = 1 \/ s[n] # s[n - 1]
             THEN Append(before, <<s[n], Len(before) + 1>>)
             ELSE before

\* C3: the catchQR invocations are exactly those of the changes of the scraped
\* urlCode, with attempts 1, 2, 3, ... (while the rendering of a new code is
\* awaited, its invocation is still to come).
C3_QrCallbackOncePerChange ==
    IF ~host.catchQR
    THEN qrCalls = << >>
    ELSE IF pc = "asciiQr"
    THEN Append(qrCalls, <<urlCode, attempt>>) = ExpectedCalls(scraped)
    ELSE qrCalls = ExpectedCalls(scraped)

\* the scrape sequence [A, A, B, B, B] with its two invocations
C3_Witness ==
    /\ host.catchQR
    /\ scraped = <<"A", "A", "B", "B", "B">>
    /\ qrCalls = << <<"A", 1>>, <<"B", 2>> >>
    /\ pc = "sleepScan"

\* the number of whole seconds of a duration of N x 1000 ms
WholeSeconds == host.autoClose \div 1000

\* the close actions that ticks made
TimerCloses == {i \in 1..Len(host.closeLog) : host.closeLog[i].by = "timer"}

Count(s, x) == Cardinality({i \in 1..Len(s) : s[i] = x})

\* C7: with autoClose = N x 1000 ms, N >= 1: a countdown invokes the close action
\* at its tick N and at no other tick, at most once; the tick N of a countdown on
\* an open page does invoke it, emitting autocloseCalled once and asking the page
\* to close, and leaves no interval live, so that no further tick follows.
C7_FiresAtTickNOnce ==
    /\ [](host.autoClose >= 1000 /\ host.autoClose % 1000 = 0 =>
            /\ \A i \in TimerCloses : host.closeLog[i].tick = WholeSeconds
            /\ \A i, j \in TimerCloses : host.closeLog[i].id = host.closeLog[j].id => i = j
            /\ \A id \in DOMAIN host.timers : host.timers[id].ticks < WholeSeconds
            /\ host.statusFind => Count(host.statusLog, "autocloseCalled") = Len(host.closeLog))
    /\ [][\A id \in DOMAIN host.timers :
            (/\ TimerTick(id)
             /\ host.autoClose >= 1000 /\ host.autoClose % 1000 = 0
             /\ ~isClosed(host)
             /\ host.timers[id].ticks = WholeSeconds - 1)
            => /\ host'.closeLog = Append(host.closeLog,
                                          [by |-> "timer", id |-> id, tick |-> WholeSeconds])
               /\ host'.statusLog = IF host.statusFind
                                    THEN Append(host.statusLog, "autocloseCalled")
                                    ELSE host.statusLog
               /\ host'.page # "open"
               /\ host'.timers = << >>]_vars

\* a countdown of 2 s that was never cancelled has fired at its tick 2
C7_Witness ==
    /\ host.autoClose = 2000
    /\ host.statusFind
    /\ host.lastCancelled = <<0>>
    /\ host.closeLog = <<[by |-> "timer", id |-> 1, tick |-> 2]>>
    /\ Count(host.statusLog, "autocloseCalled") = 1
    /\ host.page = "closing"
    /\ TimerOff

\* C8: at most one countdown is live, and it is the one the handle field names;
\* a startAutoClose while a countdown is running changes nothing.
C8_AtMostOneCountdown ==
    /\ [](/\ Cardinality(DOMAIN host.timers) <= 1
          /\ DOMAIN host.timers = IF host.autoCloseInterval = NoInterval
                                  THEN {}
                                  ELSE {host.autoCloseInterval})
    /\ [][ApiStart /\ host.autoCloseInterval # NoInterval => host' = host]_vars

\* startAutoClose was called directly and by waitForLogin, and one countdown,
\* the first, is running and has ticked
C8_Witness ==
    /\ apiCalls = <<"start">>
    /\ pc = "needsToScan"
    /\ host.autoClose = 2000
    /\ host.nextTimer = 2
    /\ DOMAIN host.timers = {1}
    /\ host.timers[1].ticks = 1

\* the step of waitForLogin that reaches the Authenticated step and restarts the timer
RestartStep ==
    /\ pc \in {"isAuthenticated", "recheckAuthenticated"}
    /\ pc' = "sleepBeforeInChat"

\* C9: a startAutoClose made when no countdown is running (after a cancelAutoClose),
\* and the restart waitForLogin makes when it reaches the Authenticated step, leave
\* one countdown running, with the full duration Math.round(autoClose / 1000).
C9_RestartIsFullDuration ==
    [][(/\ host.autoClose > 0
        /\ \/ RestartStep
           \/ ApiStart /\ host.autoCloseInterval = NoInterval)
       => /\ host'.autoCloseInterval # NoInterval
          /\ DOMAIN host'.timers = {host'.autoCloseInterval}
          /\ host'.timers[host'.autoCloseInterval].remain = Seconds(host.autoClose)
          /\ host'.timers[host'.autoCloseInterval].ticks = 0]_vars

\* after a scan, the in-chat wait runs a fresh countdown of 2 s although the
\* countdown before it had 1 s left
C9_Witness ==
    /\ pc = "sleepBeforeInChat"
    /\ host.autoClose = 2000
    /\ "qrReadSuccess" \in {host.statusLog[i] : i \in 1..Len(host.statusLog)}
    /\ host.lastCancelled = <<1>>
    /\ host.autoCloseInterval = 2
    /\ host.timers[2].remain = 2

\* C10: with autoClose <= 0 no countdown ever runs and no close action is ever
\* made: startAutoClose is a no-op and autocloseCalled is never emitted.
C10_DisabledTimerNeverRuns ==
    host.autoClose <= 0 =>
        /\ TimerOff
        /\ host.nextTimer = 1
        /\ host.closeLog = << >>
        /\ Count(host.statusLog, "autocloseCalled") = 0

\* with autoClose = 0, startAutoClose was called directly and by waitForLogin
C10_Witness ==
    /\ host.autoClose = 0
    /\ apiCalls = <<"start">>
    /\ pc = "needsToScan"
    /\ host.statusFind
    /\ TimerOff

----------------------------------------------------------------------------
(* Properties of the session registry *)

\* the tasks of initAllSessions are settled, and exactly one is rejected
OneRejected ==
    /\ \A i \in 1..Len(tasks) : tasks[i].state # "pending"
    /\ Cardinality({i \in 1..Len(tasks) : tasks[i].state = "rejected"}) = 1

\* the registry holds a handle for the session of every task but the rejected one
HoldsTheOthers ==
    \A i \in 1..Len(tasks) :
        tasks[i].state = "fulfilled" => tasks[i].session \in DOMAIN sessionArray

\* C4: when exactly one of the constructions rejects, initAllSessions does not
\* raise, and the registry holds the handles of the others.
C4_OneRejectionStillReturns ==
    OneRejected => regPc # "raised" /\ HoldsTheOthers

\* C5: when reading the token directory fails, getSessionNames logs the error
\* and returns a defined, empty list.
C5_ReadFailureGivesEmptyList ==
    ~tokenDir.ok =>
        \A i \in 1..Len(namesResult) :
            /\ namesResult[i].defined
            /\ namesResult[i].names = << >>
            /\ errorLog # << >>

\* C6: when reading the token directory fails, initAllSessions calls create
\* zero times and does not raise: it returns the registry.
C6_ReadFailureMeansNoSessions ==
    ~tokenDir.ok =>
        /\ tasks = << >>
        /\ createCalls = [j \in 1..Len(singles) |-> singles[j].session]
        /\ regPc # "raised"

----------------------------------------------------------------------------
(* Failure paths of waitForLogin *)

QrFailure == "Failed to read the QRCode"

PhoneFailure == "Phone not connected"

\* the step in which waitForLogin raises r
RaiseStep(r) == pc # "raised" /\ pc' = "raised" /\ reason' = r

\* a close attempt by waitForLogin is made in this step, after the events evs
ClosesAfter(evs) ==
    /\ host'.closeLog = Append(host.closeLog, ByLogin)
    /\ host'.page = "closing"
    /\ host'.statusLog = IF host.statusFind
                         THEN host.statusLog \o evs \o <<"autocloseCalled">>
                         ELSE host.statusLog

\* C11, as claimed: for every autoClose, a QR failure or a phone-not-connected
\* failure raised while the page is not closed comes with a close attempt.
C11_FailureClosesPage_AnyAutoClose ==
    [][/\ (RaiseStep(QrFailure) /\ ~isClosed(host) => ClosesAfter(<<"qrReadFail">>))
       /\ (RaiseStep(PhoneFailure) /\ ~isClosed(host) => ClosesAfter(<<"phoneNotConnected">>))]_vars

\* C11, amended: with autoClose > 0, a QR failure or a phone-not-connected
\* failure raised while the page is not closed comes with a close attempt, made
\* after the status event of the failure (qrReadFail, phoneNotConnected); with
\* autoClose <= 0 no close is attempted.
C11_FailureClosesPage ==
    [][/\ host.autoClose > 0 =>
            /\ (RaiseStep(QrFailure) /\ ~isClosed(host) => ClosesAfter(<<"qrReadFail">>))
            /\ (RaiseStep(PhoneFailure) /\ ~isClosed(host) => ClosesAfter(<<"phoneNotConnected">>))
       /\ host.autoClose <= 0 => host'.closeLog = host.closeLog /\ host'.page # "closing"]_vars

\* the QR failure was raised on an open page: qrReadFail, then the close attempt
C11_Witness ==
    /\ pc = "raised"
    /\ reason = QrFailure
    /\ host.autoClose = 2000
    /\ host.statusFind
    /\ host.closeLog = <<ByLogin>>
    /\ host.page = "closing"
    /\ Len(host.statusLog) >= 2
    /\ SubSeq(host.statusLog, Len(host.statusLog) - 1, Len(host.statusLog))
           = <<"qrReadFail", "autocloseCalled">>

\* the events of the status log
Events == {host.statusLog[i] : i \in 1..Len(host.statusLog)}

\* C12: when the first authentication probe is false and the probe made after
\* the scan loop is indeterminate, waitForLogin emits qrReadError and raises
\* 'Failed to read the QRCode'.
C12_IndeterminateAfterScanIsQrFailure ==
    [][pc = "recheckAuthenticated" /\ authenticated' = NULL /\ pc' # pc
       => /\ host.statusFind => Last(host'.statusLog) \in {"qrReadError", "autocloseCalled"}
                                /\ Count(host'.statusLog, "qrReadError") = 1
          /\ pc' = "raised"
          /\ reason' = QrFailure]_vars

----------------------------------------------------------------------------
(* More properties of the session registry *)

\* s is of the form <identifier>.data.json
IsTokenFile(s) ==
    /\ Len(s) > Len(Suffix)
    /\ SubSeq(s, Len(s) - Len(Suffix) + 1, Len(s)) = Suffix

\* C13: for file names of the form <identifier>.data.json, getSessionNames
\* returns the identifiers, one per file name, in the same order.
C13_NamesAreTheIdentifiers ==
    (tokenDir.ok /\ \A i \in 1..Len(tokenDir.files) : IsTokenFile(tokenDir.files[i])) =>
        \A k \in 1..Len(namesResult) :
            /\ namesResult[k].defined
            /\ Len(namesResult[k].names) = Len(tokenDir.files)
            /\ \A i \in 1..Len(tokenDir.files) :
                   namesResult[k].names[i] \o Suffix = tokenDir.files[i]

\* every entry of the registry but the one of key is as it was
OthersUnchanged(key) ==
    /\ DOMAIN sessionArray' \cup {key} = DOMAIN sessionArray \cup {key}
    /\ \A k \in DOMAIN sessionArray \ {key} : sessionArray'[k] = sessionArray[k]

\* C14: createSession calls create once, at its call; when the construction
\* succeeds the handle of that call is stored under config.session, replacing
\* what was there, and is what createSession returns, and the other entries are
\* unchanged; when the construction fails the registry is unchanged.
C14_CreateSessionStoresOneHandle ==
    [][\A j \in 1..Len(singles') :
          /\ (j > Len(singles)) =>
                /\ createCalls' = Append(createCalls, singles'[j].session)
                /\ singles'[j].serial = Len(createCalls')
                /\ sessionArray' = sessionArray
          /\ (j <= Len(singles) /\ singles'[j] # singles[j]) =>
                /\ createCalls' = createCalls
                /\ singles[j].state = "pending"
                /\ singles'[j].session = singles[j].session
                /\ \/ /\ singles'[j].state = "returned"
                      /\ singles[j].session \in DOMAIN sessionArray'
                      /\ singles'[j].result = <<sessionArray'[singles[j].session]>>
                      /\ sessionArray'[singles[j].session].serial = singles[j].serial
                      /\ sessionArray'[singles[j].session].session = singles[j].session
                      /\ OthersUnchanged(singles[j].session)
                   \/ /\ singles'[j].state = "raised"
                      /\ sessionArray' = sessionArray]_vars

\* createSession has replaced the handle initAllSessions had stored for the
\* same session, next to the entry of another session
C14_Witness ==
    \E j \in 1..Len(singles), i \in 1..Len(tasks) :
        /\ singles[j].state = "returned"
        /\ tasks[i].state = "fulfilled"
        /\ tasks[i].session = singles[j].session
        /\ sessionArray[singles[j].session].serial = singles[j].serial
        /\ Cardinality(DOMAIN sessionArray) = 2

\* the configuration given to the construction of the i-th known session: every
\* callback passes the one object mergedOptions
ConfigGiven(i) == mergedOptions

\* C15: while the construction for a known identifier is under way, the session
\* field of the configuration it was given is that identifier, and the handle
\* it produces is stored under that identifier.
C15_PerCallConfiguration ==
    \A i \in 1..Len(tasks) :
        /\ tasks[i].state = "pending" => ConfigGiven(i).session = tasks[i].session
        /\ tasks[i].state = "fulfilled" => tasks[i].session \in DOMAIN sessionArray

----------------------------------------------------------------------------
(* C16 *)

\* no close action is taken on a closed page: nothing is added to closeLog and
\* autocloseCalled is not emitted
NoCloseAction ==
    /\ host'.closeLog = host.closeLog
    /\ Count(host'.statusLog, "autocloseCalled") = Count(host.statusLog, "autocloseCalled")
    /\ host'.page = "closed"

\* C16: once the page is closed the timer never closes it afterwards; a
\* countdown that ticks on the closed page stops itself at that tick; and
\* eventually no countdown is running.
C16_ClosedPageStopsCountdown ==
    /\ [][isClosed(host) => NoCloseAction]_vars
    /\ [][Tick /\ isClosed(host) => TimerOff']_vars
    /\ [](isClosed(host) => <>TimerOff)

\* the page was closed by other means (nobody asked for the close), a countdown
\* was started after that and it is stopped
C16_Witness ==
    /\ isClosed(host)
    /\ host.closeLog = << >>
    /\ host.nextTimer > 1
    /\ host.lastCancelled = <<Seconds(host.autoClose)>>
    /\ TimerOff
    /\ pc \in {"needsToScan", "sleepBeforeInChat"}

----------------------------------------------------------------------------
(* C17 *)

\* the three outcomes of the authentication probe made after the scan loop
ScanOutcomes == {"qrReadSuccess", "qrReadFail", "qrReadError"}

\* some event of evs is in the status log before its position j
Earlier(evs, j) == \E i \in 1..(j - 1) : host.statusLog[i] \in evs

\* the order of the events in the status log
StatusOrder ==
    /\ ~("notLogged" \in Events /\ "isLogged" \in Events)
    /\ Cardinality({i \in 1..Len(host.statusLog) : host.statusLog[i] \in ScanOutcomes}) <= 1
    /\ \A j \in 1..Len(host.statusLog) :
          /\ host.statusLog[j] \in ScanOutcomes => Earlier({"notLogged"}, j)
          /\ host.statusLog[j] = "inChat" => Earlier({"isLogged", "qrReadSuccess"}, j)

\* a QR callback is made after notLogged and before any of the three outcomes
QrCallbackOrder ==
    qrCalls' # qrCalls =>
        /\ Events \cap ScanOutcomes = {}
        /\ host.statusFind => "notLogged" \in Events
        /\ host'.statusLog = host.statusLog

\* C17: a run never emits both notLogged and isLogged; it emits at most one of
\* qrReadSuccess, qrReadFail and qrReadError; inChat comes only after isLogged
\* or qrReadSuccess; every QR callback comes after notLogged and before the
\* one of the three outcomes the run emits.
C17_StatusEventOrder == [](StatusOrder) /\ [][QrCallbackOrder]_vars

\* a run that went through a scan with two QR callbacks and ended in the chat
C17_Witness ==
    /\ host.statusLog = <<"notLogged", "qrReadSuccess", "inChat">>
    /\ Len(qrCalls) = 2
    /\ pc = "returned"

----------------------------------------------------------------------------
(* C18 *)

\* waitForLogin has returned or raised
Terminal == pc \in {"returned", "raised"}

\* the run is inside waitForQrCodeScan or inside waitForInChat
InScanLoop == pc \in {"needsToScan", "getQrCode", "asciiQr", "sleepScan"}

InChatLoop == pc \in {"isInsideChat", "sleepInChat"}

\* while the page is open, a loop runs under a live countdown
CountdownCoversLoops ==
    (host.autoClose > 0 /\ host.page = "open" /\ (InScanLoop \/ InChatLoop)) =>
        /\ host.autoCloseInterval # NoInterval
        /\ host.autoCloseInterval \in DOMAIN host.timers

\* the expiry of the countdown asks for the page to be closed
ExpiryCloses ==
    \A id \in DOMAIN host.timers :
        (TimerTick(id) /\ host.page = "open" /\ Fires(host.timers[id].remain - 1)) =>
            host'.page = "closing" /\ TimerOff'

\* C18: with autoClose > 0, fair ticks and probes that fail soft on a closed
\* page, every run of waitForLogin eventually returns or raises; a countdown is
\* running during the whole scan loop and the whole in-chat loop, and its
\* expiry closes the page.
C18_LoginTerminates ==
    /\ [](CountdownCoversLoops)
    /\ [][ExpiryCloses]_vars
    /\ (host.autoClose > 0) ~> Terminal

\* a run whose in-chat state never became true, ended by the expiry of the
\* countdown restarted after the login
C18_Witness ==
    /\ Terminal
    /\ host.autoClose > 0
    /\ isClosed(host)
    /\ Len(host.closeLog) > 0
    /\ host.closeLog[1].by = "timer"
    /\ host.closeLog[1].id = 2
    /\ authenticated = T

----------------------------------------------------------------------------
(* C19 *)

\* C19: when isInsideChat answers only true or false, no run of waitForLogin
\* emits phoneNotConnected or raises 'Phone not connected'.
C19_BooleanProbeNeverPhoneFailure ==
    /\ reason # PhoneFailure
    /\ "phoneNotConnected" \notin Events

\* the probe has answered false after a login and waitForInChat goes on waiting
C19_Witness ==
    /\ pc = "sleepInChat"
    /\ authenticated = T
    /\ host.statusFind
    /\ "phoneNotConnected" \notin Events

----------------------------------------------------------------------------
(* C20 *)

\* the reasons thrown by waitForLogin's own throw statements that a run can show
OwnReasons == {QrFailure, PhoneFailure, "Unknow error"}

\* C20: no run raises 'Not logged'; a run in which the authentication state is
\* false after the scan has raised 'Failed to read the QRCode'; the reasons
\* waitForLogin itself raises are 'Failed to read the QRCode', 'Phone not
\* connected' and 'Unknow error' (a rejection of isInsideChat passes through).
C20_NeverNotLogged ==
    /\ reason # "Not logged"
    /\ (pc = "raised" /\ authenticated = F) => reason = QrFailure
    /\ pc = "raised" => reason \in OwnReasons \cup {"isInsideChat rejected"}
    /\ pc # "raised" => reason = NULL

\* the authentication state was false after the scan and the run has raised
C20_Witness ==
    /\ pc = "raised"
    /\ authenticated = F
    /\ reason = QrFailure
    /\ Len(scraped) > 0

====
